---- MODULE Spec2Model ----
(***************************************************************************)
(* Colonization round of CytoGenesis: the hexagon grid, the cell line,     *)
(* the Monod nutrient/energy exchange and the round loop of                *)
(* ColonizationPhase.run_colonization_phase.                               *)
(*                                                                         *)
(* Arithmetic.  The program computes with floats.  Here every nutrient and *)
(* energy value is an integer number of "fine" units: 1.0 is One = Scale * *)
(* Fine units, where Scale = 1000 is the decimal resolution and Fine is a  *)
(* power of two large enough that every halving a lineage of cells can     *)
(* undergo on the largest grid is exact, as `/= 2` is exact on floats.     *)
(* Rates, affinities and configuration fractions are in thousandths.  The  *)
(* Monod quotient is rounded down to a whole thousandth (the float         *)
(* quotient is rounded too); min, subtraction and addition are exact.      *)
(***************************************************************************)
EXTENDS Integers, Sequences, FiniteSets, TLC

VARIABLES
    game_state,          \* GameState: the configuration read by the round
    hexagons,            \* HexagonGrid.hexagons: coordinate -> tile
    cells,               \* CellLine.cells: coordinate -> cell
    cell_order,          \* insertion order of the dict CellLine.cells
    snapshot,            \* list(cell_line.cells.items()) of the running tick
    idx,                 \* position of the for loop in the snapshot (1-based)
    level_running,       \* local flag of the while loop
    new_cell_coordinate, \* result of the latest replicate_cell call
    pc,                  \* position in run_colonization_phase
    a_axial,             \* utils: first coordinate argument
    b_axial,             \* utils: second coordinate argument
    utils_return,        \* utils: value returned by the latest call
    process_tracker,     \* ProcessTracker: its three plotted lists
    highscores,          \* highscores.yaml: level count -> list of entries
    new_high_score_index, \* index returned by the latest update_highscores
    simulator_arguments, \* simulator: the arguments of update_nutrient_value
    simulator_return,    \* simulator: the tuple returned by the latest call
    credits_gained,      \* ColonizationPhase.credits_gained
    selling_initiated,   \* ColonizationPhase.selling_initiated
    selling_completed,   \* ColonizationPhase.selling_completed
    selling_size         \* local selling_size of run_colonization_phase

\* the variables of the colonization round
round_vars == <<game_state, hexagons, cells, cell_order, snapshot, idx,
                level_running, new_cell_coordinate, pc>>

\* the variables of the components a round does not write
utils_vars == <<a_axial, b_axial, utils_return>>

highscore_vars == <<highscores, new_high_score_index>>

simulator_vars == <<simulator_arguments, simulator_return>>

\* the fields of ColonizationPhase that the selling screen writes
phase_vars == <<credits_gained, selling_initiated, selling_completed>>

selling_vars == <<credits_gained, selling_initiated, selling_completed, selling_size>>

\* the components outside run_colonization_phase
component_vars == <<a_axial, b_axial, utils_return, process_tracker, highscores,
                    new_high_score_index, simulator_arguments, simulator_return>>

other_vars == <<a_axial, b_axial, utils_return, process_tracker, highscores,
                new_high_score_index, simulator_arguments, simulator_return,
                credits_gained, selling_initiated, selling_completed, selling_size>>

vars == <<game_state, hexagons, cells, cell_order, snapshot, idx,
          level_running, new_cell_coordinate, pc,
          a_axial, b_axial, utils_return, process_tracker, highscores,
          new_high_score_index, simulator_arguments, simulator_return,
          credits_gained, selling_initiated, selling_completed, selling_size>>

----------------------------------------------------------------------------
(* Bounds of the model *)

MaxLevel == 1
MaxCells == 1
MaxLowTiles == 1

(* Fixed-point resolution *)

Scale == 10 ^ 3

TileCount(d) == 3 * d * d + 3 * d + 1

Fine == 2 ^ (TileCount(MaxLevel) - 1)

One == Scale * Fine

None == <<>>

Min(a, b) == IF a <= b THEN a ELSE b

Abs(x) == IF x < 0 THEN -x ELSE x

----------------------------------------------------------------------------
(* core_modules/utils: hex coordinate math *)

axial_to_cube(a) == <<a[1], a[2], -a[2] - a[1]>>

convert_cube_to_axial(c) == <<c[1], c[2]>>

\* twice the value of cube_distance, which divides the sum by 2 as a float
cube_distance_doubled(a, b) ==
    Abs(a[1] - b[1]) + Abs(a[2] - b[2]) + Abs(a[3] - b[3])

\* round(x / 2) as Python rounds: a half goes to the even neighbour
round_half(x) ==
    IF x % 2 = 0 THEN x \div 2
    ELSE IF (x \div 2) % 2 = 0 THEN x \div 2 ELSE x \div 2 + 1

\* variant: the distance is taken on the two axial components alone
calculate_axial_distance_skewed(a, b) == Abs(a[1] - b[1]) + Abs(a[2] - b[2])

calculate_axial_distance(a, b) ==
    round_half(cube_distance_doubled(axial_to_cube(a), axial_to_cube(b)))

calculate_hexagon_neighbors(a) ==
    { <<a[1] - 1, a[2]>>, <<a[1] - 1, a[2] + 1>>, <<a[1], a[2] - 1>>,
      <<a[1], a[2] + 1>>, <<a[1] + 1, a[2] - 1>>, <<a[1] + 1, a[2]>> }

----------------------------------------------------------------------------
(* GameState: the configurations a round is started with.  Fractions are  *)
(* in thousandths.                                                         *)

default_cell_division_threshold == 1000
default_biomass_price == 100
maximum_biomass_price == 3
default_cell_energy_variation == 200
default_hexagon_nutrient_richness == 100
maximum_hexagon_nutrient_richness == 1000
maximum_cell_energy_initial == 1000
maximum_cell_energy_consumption_rate == 200
maximum_cell_energy_affinity == 100

\* biomass_price is a number of credits per unit of biomass, current_credits
\* a number of hundredths of a credit.
\* current_biomass is 0 between rounds (reset, or sold to the last unit);
\* run_biomass is 0 in the first round of a run and holds the harvest of the
\* earlier rounds afterwards (here one full cell).
GameStates ==
    { gs \in [ current_level : 0..MaxLevel,
               number_cells : 1..MaxCells,
               cell_division_threshold : {default_cell_division_threshold},
               cell_energy_consumption_rate_maximum : {maximum_cell_energy_consumption_rate},
               cell_energy_affinity : {maximum_cell_energy_affinity},
               cell_energy_initial : {maximum_cell_energy_initial},
               cell_energy_variation : {default_cell_energy_variation},
               hexagon_nutrient_richness :
                   {default_hexagon_nutrient_richness, maximum_hexagon_nutrient_richness},
               current_biomass : {0},
               run_biomass : {0, One},
               biomass_price : {default_biomass_price},
               current_credits : {0} ] :
        (gs.run_biomass = 0) <=> (gs.current_level = 0) }

----------------------------------------------------------------------------
(* HexagonGrid *)

\* the cube coordinates the three nested loops accept: one list element each
cube_coordinates_with_distance(distance_axial) ==
    LET base_vector == (-distance_axial)..distance_axial
    IN  { t \in base_vector \X base_vector \X base_vector : t[1] + t[2] + t[3] = 0 }

\* variant: the test r + q + s == 0 is missing
get_neighbor_coordinates_with_distance_unfiltered(center_axial, distance_axial) ==
    LET base_vector == (-distance_axial)..distance_axial
    IN  { <<convert_cube_to_axial(<<r, q, s>>)[1] + center_axial[1],
            convert_cube_to_axial(<<r, q, s>>)[2] + center_axial[2]>> :
          <<r, q, s>> \in base_vector \X base_vector \X base_vector }

\* HexagonGrid._get_neighbor_coordinates_with_distance((0, 0), distance_axial)
get_neighbor_coordinates_with_distance(center_axial, distance_axial) ==
    LET base_vector == (-distance_axial)..distance_axial
    IN  { <<convert_cube_to_axial(<<r, q, s>>)[1] + center_axial[1],
            convert_cube_to_axial(<<r, q, s>>)[2] + center_axial[2]>> :
          <<r, q, s>> \in { t \in base_vector \X base_vector \X base_vector :
                            t[1] + t[2] + t[3] = 0 } }

\* numpy.exp(-nutrient_variation * distance) for the default variation 0.35,
\* in thousandths: 1000, 705, 497, 350, ...
RECURSIVE nutrient_distance_factor(_)
nutrient_distance_factor(distance) ==
    IF distance <= 0 THEN Scale
    ELSE (nutrient_distance_factor(distance - 1) * 705) \div Scale

\* variant: the nutrient value is not clamped to 1
create_hexagon_unclamped(axial_coordinate, nutrient_randomness_factor) ==
    LET axial_distance_to_center == calculate_axial_distance(<<0, 0>>, axial_coordinate)
        factor == nutrient_distance_factor(axial_distance_to_center)
    IN  [ coordinate_axial |-> axial_coordinate,
          nutrient_value |->
              ((factor * (Scale + nutrient_randomness_factor)) \div Scale) * Fine,
          highlight_ticks |-> 0 ]

\* HexagonGrid.create_hexagon: nutrient_randomness_factor is the draw of
\* random.uniform(-nutrient_richness, nutrient_richness), in thousandths.
create_hexagon(axial_coordinate, nutrient_randomness_factor) ==
    LET axial_distance_to_center == calculate_axial_distance(<<0, 0>>, axial_coordinate)
        factor == nutrient_distance_factor(axial_distance_to_center)
    IN  [ coordinate_axial |-> axial_coordinate,
          nutrient_value |->
              Min(((factor * (Scale + nutrient_randomness_factor)) \div Scale) * Fine,
                  One),
          highlight_ticks |-> 0 ]

\* HexagonGrid._create_hexagon_ring; low is the set of tiles whose draw is
\* -nutrient_richness, the other tiles draw +nutrient_richness.
create_hexagon_ring(number_rings, nutrient_richness, low) ==
    [ c \in get_neighbor_coordinates_with_distance(<<0, 0>>, number_rings) |->
        create_hexagon(c, IF c \in low THEN -nutrient_richness ELSE nutrient_richness) ]

----------------------------------------------------------------------------
(* Cell *)

\* Cell._calculate_randomized_energy_value; u is the draw of
\* random.uniform(-1, 1), here -1 or 1.
calculate_randomized_energy_value(initial_energy_value, energy_variation, u) ==
    ((initial_energy_value * (Scale + energy_variation * u)) \div Scale) * Fine

\* Cell.__init__
NewCell(coordinate_axial, gs, u) ==
    [ coordinate_axial |-> coordinate_axial,
      growth |-> TRUE,
      energy_affinity |-> gs.cell_energy_affinity,
      division_threshold |-> gs.cell_division_threshold * Fine,
      energy_value |->
          Min(calculate_randomized_energy_value(
                  gs.cell_energy_initial, gs.cell_energy_variation, u),
              gs.cell_division_threshold * Fine),
      energy_consumption_rate_maximum |-> gs.cell_energy_consumption_rate_maximum ]

----------------------------------------------------------------------------
(* CellLine *)

\* CellLine._scale_energy_consumption_rate:
\* rate * (0.5 + 0.5 * (level / (1 + level))) = rate * (1 + 2 level) / (2 (1 + level))
scale_energy_consumption_rate(energy_consumption_rate, current_level) ==
    (energy_consumption_rate * (1 + 2 * current_level)) \div (2 * (1 + current_level))

\* variant: numpy.random.choice with replace=True
generate_random_positions_replace(tiles, number_cells) ==
    [1..Min(number_cells, Cardinality(tiles)) -> tiles]

\* CellLine._generate_random_positions: numpy.random.choice without
\* replacement; every tile has a positive Gaussian weight, so every sequence
\* of number_cells distinct tiles can be drawn.
generate_random_positions(tiles, number_cells) ==
    { s \in [1..Min(number_cells, Cardinality(tiles)) -> tiles] :
        \A i, j \in DOMAIN s : i # j => s[i] # s[j] }

\* CellLine._create_cells, for drawn coordinates and drawn energies
create_cells(gs, coordinates, draws) ==
    [ c \in { coordinates[i] : i \in DOMAIN coordinates } |->
        LET i == CHOOSE k \in DOMAIN coordinates : coordinates[k] = c
        IN  [ NewCell(c, gs, draws[i]) EXCEPT
                !.energy_consumption_rate_maximum =
                    scale_energy_consumption_rate(
                        gs.cell_energy_consumption_rate_maximum, gs.current_level) ] ]

\* variant: the occupied tiles are not subtracted
unoccupied_hexagons_all(hs, cs) == DOMAIN hs

\* variant: only the tiles of growing cells count as occupied
unoccupied_hexagons_growing(hs, cs) == DOMAIN hs \ { c \in DOMAIN cs : cs[c].growth }

\* keys of hexagon_grid.hexagons minus keys of self.cells
unoccupied_hexagons(hs, cs) == DOMAIN hs \ DOMAIN cs

\* variant: the neighbours are not intersected with the tiles of the grid
unoccupied_neighbors_coordinates_off_grid(cell_coordinate, hs, cs) ==
    calculate_hexagon_neighbors(cell_coordinate) \ DOMAIN cs

\* the candidate sites of CellLine.replicate_cell
unoccupied_neighbors_coordinates(cell_coordinate, hs, cs) ==
    calculate_hexagon_neighbors(cell_coordinate) \cap unoccupied_hexagons(hs, cs)

\* variant: the mother keeps her whole energy
halved_not(energy_value) == energy_value

\* the halved energy of the mother: energy_value /= 2
halved(energy_value) == energy_value \div 2

\* variant: the mother is stopped when she divides
mother_after_division_stopped(cell) ==
    [ cell EXCEPT !.energy_value = halved(cell.energy_value), !.growth = FALSE ]

\* the mother after self.cells[cell_coordinate].energy_value /= 2: nothing
\* else of her is written
mother_after_division(cell) ==
    [ cell EXCEPT !.energy_value = halved(cell.energy_value) ]

\* variant: the daughter gets the energy the mother had before the halving
daughter_cell_whole(daughter_coordinates, gs, mother_energy_value) ==
    [ NewCell(daughter_coordinates, gs, 1) EXCEPT
        !.energy_value = 2 * mother_energy_value ]

\* the daughter built by replicate_cell: a fresh Cell whose energy is then
\* overwritten with the mother's halved energy
daughter_cell(daughter_coordinates, gs, mother_energy_value) ==
    [ NewCell(daughter_coordinates, gs, 1) EXCEPT
        !.energy_value = mother_energy_value ]

\* variant: the stop reaches every cell of the line
stop_growth_all(cs, cell_coordinate) ==
    [ c \in DOMAIN cs |-> [cs[c] EXCEPT !.growth = FALSE] ]

\* self.cells[cell_coordinate].growth = False
stop_growth(cs, cell_coordinate) == [cs EXCEPT ![cell_coordinate].growth = FALSE]

\* variant: the dict is replaced by one that holds the new entry alone
put_cell_alone(cs, coordinate, cell) == [ c \in {coordinate} |-> cell ]

\* self.cells[daughter_coordinates] = daughter_cell
put_cell(cs, coordinate, cell) ==
    [ c \in DOMAIN cs \cup {coordinate} |-> IF c = coordinate THEN cell ELSE cs[c] ]

\* order of the keys of the dict after self.cells[coordinate] = ...
put_order(order, coordinate) ==
    IF \E i \in DOMAIN order : order[i] = coordinate THEN order
    ELSE Append(order, coordinate)

\* variant: the dict of tiles is replaced by one that holds the highlighted
\* tile alone
set_highlight_alone(hs, coordinate, highlight_ticks) ==
    [ c \in {coordinate} |-> [ hs[coordinate] EXCEPT !.highlight_ticks = highlight_ticks ] ]

\* HexagonTile.set_highlight
set_highlight(hs, coordinate, highlight_ticks) ==
    [ hs EXCEPT ![coordinate].highlight_ticks = highlight_ticks ]

----------------------------------------------------------------------------
(* simulator.update_nutrient_value *)

nutrient_epsilon == 5

\* Monod uptake, rounded down to a whole thousandth; rate and affinity are
\* in thousandths, the nutrient in fine units
monod_uptake(nutrient_value, energy_consumption_rate_maximum, energy_affinity) ==
    LET n == nutrient_value \div Fine
    IN  ((energy_consumption_rate_maximum * n) \div (n + energy_affinity)) * Fine

\* the test abs(nutrient_value) < 0.005
nutrient_exhausted(nutrient_value) == Abs(nutrient_value) < nutrient_epsilon * Fine

\* variant: the operands of the subtraction are swapped
max_possible_uptake_swapped(division_threshold, energy_value) ==
    energy_value - division_threshold

\* max_possible_uptake = division_threshold - energy_value
max_possible_uptake(division_threshold, energy_value) ==
    division_threshold - energy_value

\* variant: the uptake is not clamped to the room below the threshold
nutrient_uptake_unclamped(nutrient_value, energy_value, energy_consumption_rate_maximum, energy_affinity, division_threshold) ==
    Min(monod_uptake(nutrient_value, energy_consumption_rate_maximum,
                     energy_affinity),
        nutrient_value)

\* the uptake after both clamps
nutrient_uptake(nutrient_value, energy_value, energy_consumption_rate_maximum, energy_affinity, division_threshold) ==
    Min(Min(monod_uptake(nutrient_value, energy_consumption_rate_maximum,
                         energy_affinity),
            nutrient_value),
        max_possible_uptake(division_threshold, energy_value))

\* variant: the growth flag is not tested on entry and is recomputed from
\* the nutrient left
update_nutrient_value_regrow(nutrient_value, energy_value, growth, energy_consumption_rate_maximum, energy_affinity, division_threshold) ==
    IF nutrient_value <= 0
    THEN [ nutrient_value |-> nutrient_value, energy_value |-> energy_value,
           growth |-> growth ]
    ELSE LET uptake == nutrient_uptake(nutrient_value, energy_value,
                                       energy_consumption_rate_maximum,
                                       energy_affinity, division_threshold)
             n == nutrient_value - uptake
             e == energy_value + uptake
         IN  IF nutrient_exhausted(n)
             THEN [ nutrient_value |-> 0, energy_value |-> e, growth |-> FALSE ]
             ELSE [ nutrient_value |-> n, energy_value |-> e, growth |-> TRUE ]

\* variant: the entry test looks at the growth flag alone
update_nutrient_value_growth_only(nutrient_value, energy_value, growth, energy_consumption_rate_maximum, energy_affinity, division_threshold) ==
    IF ~growth
    THEN [ nutrient_value |-> nutrient_value, energy_value |-> energy_value,
           growth |-> growth ]
    ELSE LET uptake == nutrient_uptake(nutrient_value, energy_value,
                                       energy_consumption_rate_maximum,
                                       energy_affinity, division_threshold)
             n == nutrient_value - uptake
             e == energy_value + uptake
         IN  IF nutrient_exhausted(n)
             THEN [ nutrient_value |-> 0, energy_value |-> e, growth |-> FALSE ]
             ELSE [ nutrient_value |-> n, energy_value |-> e, growth |-> growth ]

\* update_nutrient_value
update_nutrient_value(nutrient_value, energy_value, growth, energy_consumption_rate_maximum, energy_affinity, division_threshold) ==
    IF ~growth \/ nutrient_value <= 0
    THEN [ nutrient_value |-> nutrient_value, energy_value |-> energy_value,
           growth |-> growth ]
    ELSE LET uptake == nutrient_uptake(nutrient_value, energy_value,
                                       energy_consumption_rate_maximum,
                                       energy_affinity, division_threshold)
             n == nutrient_value - uptake
             e == energy_value + uptake
         IN  IF nutrient_exhausted(n)
             THEN [ nutrient_value |-> 0, energy_value |-> e, growth |-> FALSE ]
             ELSE [ nutrient_value |-> n, energy_value |-> e, growth |-> growth ]

\* HexagonTile._update_highlight_ticks
update_highlight_ticks(highlight_ticks) ==
    IF highlight_ticks > 0 THEN highlight_ticks - 1 ELSE highlight_ticks

\* variant: nutrient_value is one attribute shared by all tiles
tiles_after_update_shared(hs, coordinate, nutrient_value) ==
    [ t \in DOMAIN hs |->
        [ hs[t] EXCEPT
            !.nutrient_value = nutrient_value,
            !.highlight_ticks = IF t = coordinate THEN update_highlight_ticks(@) ELSE @ ] ]

\* the tiles after HexagonTile.update has run on the tile at coordinate:
\* self.nutrient_value is assigned, self._update_highlight_ticks() is called
tiles_after_update(hs, coordinate, nutrient_value) ==
    [ hs EXCEPT ![coordinate].nutrient_value = nutrient_value,
                ![coordinate].highlight_ticks = update_highlight_ticks(@) ]

\* RenderManager.render_hexagons: every tile drawn with a positive
\* highlight_ticks loses one tick while it is drawn
render_hexagons(hs) ==
    [ t \in DOMAIN hs |->
        [ hs[t] EXCEPT !.highlight_ticks = IF @ > 0 THEN @ - 1 ELSE @ ] ]

----------------------------------------------------------------------------
(* The components a round does not write, as they are before their first   *)
(* use: no utils call made, a ProcessTracker fresh from __init__, no        *)
(* highscores.yaml.                                                         *)

MaxLevelCounts == 1

\* the level counts a game is played with: the keys of highscores.yaml
LevelCounts == 1..MaxLevelCounts

\* ProcessTracker.__init__
NewProcessTracker == [ timestamps |-> <<>>, total_biomass |-> <<>>, growth_rate |-> <<>> ]

\* _load_highscores when highscores.yaml does not exist: no entry for any level count
NoHighscores == [ levels \in LevelCounts |-> <<>> ]

\* no call of update_nutrient_value made from outside a round
SimulatorIdle ==
    /\ simulator_arguments = None
    /\ simulator_return = None

\* ColonizationPhase.__init__: the fields of the selling screen
NewColonizationPhase ==
    /\ credits_gained = 0
    /\ selling_initiated = FALSE
    /\ selling_completed = FALSE

\* no harvest is being sold: the phase is as constructed and the local
\* selling_size is not assigned
SellingIdle ==
    /\ NewColonizationPhase
    /\ selling_size = 0

OtherInit ==
    /\ a_axial = <<0, 0>>
    /\ b_axial = <<0, 0>>
    /\ utils_return = None
    /\ process_tracker = NewProcessTracker
    /\ highscores = NoHighscores
    /\ new_high_score_index = None
    /\ SimulatorIdle
    /\ SellingIdle

----------------------------------------------------------------------------
(* ColonizationPhase.run_colonization_phase: the round loop *)

EnergyDraws == {-1, 1}

\* variant: only the cells that still grow are summed
RECURSIVE sum_energy_growing(_, _)
sum_energy_growing(cs, order) ==
    IF order = <<>> THEN 0
    ELSE (IF cs[Head(order)].growth THEN cs[Head(order)].energy_value ELSE 0)
         + sum_energy_growing(cs, Tail(order))

\* CellLine.get_biomass: the sum of energy_value over the values of the dict
RECURSIVE sum_energy(_, _)
sum_energy(cs, order) ==
    IF order = <<>> THEN 0
    ELSE cs[Head(order)].energy_value + sum_energy(cs, Tail(order))

get_biomass == sum_energy(cells, cell_order)

\* variant: the for loop runs over the dict itself, which shows a key as
\* soon as it is inserted
copied_items_live(items, order) == order

\* list(cell_line.cells.items()) is a copy: an insertion into the dict
\* (order is the dict's key order after it) leaves the list as it is
copied_items(items, order) == items

\* variant: the flag is assigned, so the last cell visited decides
level_running_after_last(running, growth) == growth

\* `if cell.growth: level_running = True`
level_running_after(running, growth) == IF growth THEN TRUE ELSE running

Init ==
    \E gs \in GameStates :
      \E low \in SUBSET get_neighbor_coordinates_with_distance(<<0, 0>>, gs.current_level) :
        /\ Cardinality(low) <= MaxLowTiles
        /\ LET grid == create_hexagon_ring(gs.current_level,
                                           gs.hexagon_nutrient_richness, low)
           IN  \E coordinates \in generate_random_positions(DOMAIN grid, gs.number_cells) :
                 \E draws \in [DOMAIN coordinates -> EnergyDraws] :
                   /\ game_state = gs
                   /\ hexagons = grid
                   /\ cells = create_cells(gs, coordinates, draws)
                   /\ cell_order = coordinates
                   /\ snapshot = <<>>
                   /\ idx = 1
                   /\ level_running = FALSE
                   /\ new_cell_coordinate = None
                   /\ pc = "while"
                   /\ OtherInit

\* top of `while True`: level_running = False, then the snapshot of the for loop
BeginTick ==
    /\ pc = "while"
    /\ level_running' = FALSE
    /\ snapshot' = cell_order
    /\ idx' = 1
    /\ pc' = "for"
    /\ UNCHANGED <<game_state, hexagons, cells, cell_order, new_cell_coordinate>>
    /\ UNCHANGED other_vars

\* one iteration of the for loop up to the call of HexagonTile.update:
\* the growth test and, at the division threshold, CellLine.replicate_cell
VisitCell ==
    /\ pc = "for"
    /\ idx <= Len(snapshot)
    /\ LET cell_coordinate == snapshot[idx]
           cell == cells[cell_coordinate]
       IN  IF ~cell.growth
           THEN /\ idx' = idx + 1
                /\ level_running' = level_running_after(level_running, cell.growth)
                /\ UNCHANGED <<game_state, hexagons, cells, cell_order, snapshot,
                               new_cell_coordinate, pc>>
           ELSE /\ level_running' = level_running_after(level_running, cell.growth)
                /\ pc' = "update"
                /\ IF cell.energy_value >= game_state.cell_division_threshold * Fine
                   THEN LET sites == unoccupied_neighbors_coordinates(
                                         cell_coordinate, hexagons, cells)
                        IN  IF sites # {}
                            THEN \E daughter_coordinates \in sites :
                                   LET mother == mother_after_division(cell)
                                       e == mother.energy_value
                                   IN  /\ cells' = put_cell(
                                             [cells EXCEPT ![cell_coordinate] = mother],
                                             daughter_coordinates,
                                             daughter_cell(daughter_coordinates,
                                                           game_state, e))
                                       /\ cell_order' = put_order(cell_order,
                                                                  daughter_coordinates)
                                       /\ hexagons' = set_highlight(
                                             set_highlight(hexagons,
                                                           daughter_coordinates, 15),
                                             daughter_coordinates, 50)
                                       /\ new_cell_coordinate' = daughter_coordinates
                            ELSE /\ cells' = stop_growth(cells, cell_coordinate)
                                 /\ new_cell_coordinate' = None
                                 /\ UNCHANGED <<hexagons, cell_order>>
                   ELSE UNCHANGED <<hexagons, cells, cell_order, new_cell_coordinate>>
                /\ snapshot' = copied_items(snapshot, cell_order')
                /\ UNCHANGED <<game_state, idx>>
    /\ UNCHANGED other_vars

\* hexagon_grid.hexagons[cell_coordinate].update(cell)
UpdateTile ==
    /\ pc = "update"
    /\ LET cell_coordinate == snapshot[idx]
           cell == cells[cell_coordinate]
           tile == hexagons[cell_coordinate]
           r == update_nutrient_value(tile.nutrient_value, cell.energy_value,
                                      cell.growth,
                                      cell.energy_consumption_rate_maximum,
                                      cell.energy_affinity, cell.division_threshold)
       IN  /\ hexagons' = tiles_after_update(hexagons, cell_coordinate, r.nutrient_value)
           /\ cells' = [cells EXCEPT
                          ![cell_coordinate].energy_value = r.energy_value,
                          ![cell_coordinate].growth = r.growth]
    /\ idx' = idx + 1
    /\ pc' = "for"
    /\ UNCHANGED <<game_state, cell_order, snapshot, level_running,
                   new_cell_coordinate>>
    /\ UNCHANGED other_vars

\* after the for loop: _render_colonization_phase draws the frame
\* (render_hexagons), then `if not level_running: break`
EndTick ==
    /\ pc = "for"
    /\ idx > Len(snapshot)
    /\ hexagons' = render_hexagons(hexagons)
    /\ pc' = IF level_running THEN "while" ELSE "done"
    /\ UNCHANGED <<game_state, cells, cell_order, snapshot, idx,
                   level_running, new_cell_coordinate>>
    /\ UNCHANGED other_vars

\* after the loop: current_biomass = cell_line.get_biomass();
\* game_state.current_biomass = current_biomass;
\* game_state.run_biomass += current_biomass;
\* selling_size = 0.02 * game_state.current_biomass
ReportBiomass ==
    /\ pc = "done"
    /\ game_state' = [game_state EXCEPT
                        !.current_biomass = get_biomass,
                        !.run_biomass = game_state.run_biomass + get_biomass]
    /\ selling_size' = (2 * get_biomass) \div 100
    /\ pc' = "selling"
    /\ UNCHANGED <<hexagons, cells, cell_order, snapshot, idx, level_running,
                   new_cell_coordinate>>
    /\ UNCHANGED <<component_vars, phase_vars>>

Next == BeginTick \/ VisitCell \/ UpdateTile \/ EndTick \/ ReportBiomass

Spec == Init /\ [][Next]_vars

\* the loop is sequential code: whenever a step is possible it is taken
FairSpec == Spec /\ WF_vars(Next)

----------------------------------------------------------------------------
(* Round setup: run_colonization_phase builds the HexagonGrid, then the     *)
(* CellLine, from the GameState it is handed.  The GameState is an input:   *)
(* nothing between its attributes and the two constructors examines it, so  *)
(* the values a caller can set include a division threshold or an affinity  *)
(* of 0.                                                                    *)

MaxSetupCells == 2

SetupGameStates ==
    { gs \in [ current_level : 0..MaxLevel,
               number_cells : 1..MaxSetupCells,
               cell_division_threshold : {0, default_cell_division_threshold},
               cell_energy_consumption_rate_maximum : {maximum_cell_energy_consumption_rate},
               cell_energy_affinity : {0, maximum_cell_energy_affinity},
               cell_energy_initial : {maximum_cell_energy_initial},
               cell_energy_variation : {default_cell_energy_variation},
               hexagon_nutrient_richness :
                   {default_hexagon_nutrient_richness, maximum_hexagon_nutrient_richness},
               current_biomass : {0},
               run_biomass : {0, One},
               biomass_price : {default_biomass_price},
               current_credits : {0} ] :
        (gs.run_biomass = 0) <=> (gs.current_level = 0) }

\* the sets of at most n tiles whose draw of random.uniform is the lowest
RECURSIVE low_tile_sets(_, _)
low_tile_sets(tiles, n) ==
    IF n = 0 THEN {{}}
    ELSE LET smaller == low_tile_sets(tiles, n - 1)
         IN  smaller \cup { s \cup {t} : s \in smaller, t \in tiles }

\* entry of run_colonization_phase: nothing is built yet
SetupInit ==
    /\ game_state \in SetupGameStates
    /\ hexagons = <<>>
    /\ cells = <<>>
    /\ cell_order = <<>>
    /\ snapshot = <<>>
    /\ idx = 1
    /\ level_running = FALSE
    /\ new_cell_coordinate = None
    /\ pc = "setup"
    /\ OtherInit

\* hexagon_grid = HexagonGrid(game_state, ...)
CreateHexagonGrid ==
    /\ pc = "setup"
    /\ \E low \in low_tile_sets(
                  get_neighbor_coordinates_with_distance(<<0, 0>>, game_state.current_level),
                  MaxLowTiles) :
         hexagons' = create_hexagon_ring(game_state.current_level,
                                         game_state.hexagon_nutrient_richness, low)
    /\ pc' = "grid"
    /\ UNCHANGED <<game_state, cells, cell_order, snapshot, idx, level_running,
                   new_cell_coordinate>>
    /\ UNCHANGED other_vars

\* cell_line = CellLine(hexagon_grid, game_state, ...)
CreateCellLine ==
    /\ pc = "grid"
    /\ \E coordinates \in generate_random_positions(DOMAIN hexagons,
                                                    game_state.number_cells) :
         \E draws \in [DOMAIN coordinates -> EnergyDraws] :
           /\ cells' = create_cells(game_state, coordinates, draws)
           /\ cell_order' = coordinates
    /\ pc' = "while"
    /\ UNCHANGED <<game_state, hexagons, snapshot, idx, level_running,
                   new_cell_coordinate>>
    /\ UNCHANGED other_vars

SetupNext == CreateHexagonGrid \/ CreateCellLine

SetupSpec == SetupInit /\ [][SetupNext]_vars

(* The grid alone, for every ring radius a run can ask for *)

MaxRing == 10

GridGameStates ==
    [ current_level : 0..MaxRing,
      number_cells : {1},
      cell_division_threshold : {default_cell_division_threshold},
      cell_energy_consumption_rate_maximum : {maximum_cell_energy_consumption_rate},
      cell_energy_affinity : {maximum_cell_energy_affinity},
      cell_energy_initial : {maximum_cell_energy_initial},
      cell_energy_variation : {default_cell_energy_variation},
      hexagon_nutrient_richness :
          {default_hexagon_nutrient_richness, maximum_hexagon_nutrient_richness},
      current_biomass : {0},
      run_biomass : {0},
      biomass_price : {default_biomass_price},
      current_credits : {0} ]

GridInit ==
    /\ game_state \in GridGameStates
    /\ hexagons = <<>>
    /\ cells = <<>>
    /\ cell_order = <<>>
    /\ snapshot = <<>>
    /\ idx = 1
    /\ level_running = FALSE
    /\ new_cell_coordinate = None
    /\ pc = "setup"
    /\ OtherInit

GridSpec == GridInit /\ [][CreateHexagonGrid]_vars

----------------------------------------------------------------------------
(* The selling screen: the second loop of run_colonization_phase, reached   *)
(* when the round loop has exited, and the next game started from the main  *)
(* menu with the same ColonizationPhase object.  The rounds are those of    *)
(* level 0, whose grid is one tile.  credits_gained is a number of credits  *)
(* times One (a price times fine units of biomass).                         *)

MaxKeyPresses == 2

\* the configurations of a first round: reset() has set current_level,
\* both biomass fields and current_credits to 0
SellingGameStates ==
    [ current_level : {0},
      number_cells : {1},
      cell_division_threshold :
          {default_cell_division_threshold \div 2, default_cell_division_threshold},
      cell_energy_consumption_rate_maximum : {maximum_cell_energy_consumption_rate},
      cell_energy_affinity : {maximum_cell_energy_affinity},
      cell_energy_initial : {maximum_cell_energy_initial},
      cell_energy_variation : {default_cell_energy_variation},
      hexagon_nutrient_richness :
          {default_hexagon_nutrient_richness, maximum_hexagon_nutrient_richness},
      current_biomass : {0},
      run_biomass : {0},
      biomass_price : {maximum_biomass_price, default_biomass_price},
      current_credits : {0} ]

\* round(credits_gained, 2) as a number of hundredths: the nearest
\* hundredth, a half going to the even neighbour
round_hundredths(credits) ==
    LET hundredth == One \div 100
        q == credits \div hundredth
        r == credits % hundredth
    IN  IF 2 * r < hundredth THEN q
        ELSE IF 2 * r > hundredth THEN q + 1
        ELSE IF q % 2 = 0 THEN q ELSE q + 1

\* variant: credits_gained is not cleared when the screen is left
credits_gained_kept(credits) == credits

\* self.credits_gained = 0
credits_gained_reset(credits) == 0

\* the body of `for event in pygame.event.get()` for one K_RETURN event;
\* screen holds the fields the body reads and writes, returned tells that
\* the `return` was reached
handle_option_selection(screen) ==
    IF screen.returned THEN screen
    ELSE LET initiated == [ screen EXCEPT !.selling_initiated = TRUE ]
         IN  IF initiated.selling_completed
             THEN [ initiated EXCEPT
                      !.current_credits = @ + round_hundredths(initiated.credits_gained),
                      !.credits_gained = credits_gained_reset(@),
                      !.selling_completed = FALSE,
                      !.selling_initiated = FALSE,
                      !.returned = TRUE ]
             ELSE initiated

\* the for loop over the events of one frame: presses K_RETURN events
RECURSIVE handle_events(_, _)
handle_events(screen, presses) ==
    IF presses = 0 THEN screen
    ELSE handle_events(handle_option_selection(screen), presses - 1)

\* biomass_sold = min(0.05 + 0.5 * selling_size, game_state.current_biomass)
biomass_sold(size, current_biomass) ==
    Min((5 * One) \div 100 + size \div 2, current_biomass)

SellingInit ==
    \E gs \in SellingGameStates :
      \E low \in SUBSET get_neighbor_coordinates_with_distance(<<0, 0>>, gs.current_level) :
        /\ Cardinality(low) <= MaxLowTiles
        /\ LET grid == create_hexagon_ring(gs.current_level,
                                           gs.hexagon_nutrient_richness, low)
           IN  \E coordinates \in generate_random_positions(DOMAIN grid, gs.number_cells) :
                 \E draws \in [DOMAIN coordinates -> EnergyDraws] :
                   /\ game_state = gs
                   /\ hexagons = grid
                   /\ cells = create_cells(gs, coordinates, draws)
                   /\ cell_order = coordinates
                   /\ snapshot = <<>>
                   /\ idx = 1
                   /\ level_running = FALSE
                   /\ new_cell_coordinate = None
                   /\ pc = "while"
                   /\ OtherInit

\* one pass of the second `while True`: the events of the frame, then the
\* sale of the frame if selling is initiated, then _render_point_screen
SellingFrame ==
    /\ pc = "selling"
    /\ \E presses \in 0..MaxKeyPresses :
         LET screen == handle_events(
                           [ selling_initiated |-> selling_initiated,
                             selling_completed |-> selling_completed,
                             credits_gained |-> credits_gained,
                             current_credits |-> game_state.current_credits,
                             returned |-> FALSE ], presses)
             sold == biomass_sold(selling_size, game_state.current_biomass)
         IN  IF screen.returned
             THEN /\ pc' = "returned"
                  /\ game_state' = [game_state EXCEPT
                                      !.current_credits = screen.current_credits]
                  /\ credits_gained' = screen.credits_gained
                  /\ selling_initiated' = screen.selling_initiated
                  /\ selling_completed' = screen.selling_completed
                  /\ hexagons' = hexagons
             ELSE /\ pc' = "selling"
                  /\ selling_initiated' = screen.selling_initiated
                  /\ IF screen.selling_initiated
                     THEN /\ game_state' = [game_state EXCEPT !.current_biomass = @ - sold]
                          /\ credits_gained' =
                                screen.credits_gained + sold * game_state.biomass_price
                          /\ selling_completed' =
                                IF game_state.current_biomass - sold = 0
                                THEN TRUE ELSE screen.selling_completed
                     ELSE /\ game_state' = game_state
                          /\ credits_gained' = screen.credits_gained
                          /\ selling_completed' = screen.selling_completed
                  /\ hexagons' = render_hexagons(hexagons)
    /\ UNCHANGED <<cells, cell_order, snapshot, idx, level_running,
                   new_cell_coordinate, selling_size>>
    /\ UNCHANGED component_vars

\* the player leaves during the selling screen: pygame.QUIT, or Escape and
\* Quit or Main Menu in the escape menu (sys.exit, or the exception that
\* nothing catches); the process ends
SellingQuit ==
    /\ pc = "selling"
    /\ pc' = "exit"
    /\ UNCHANGED <<game_state, hexagons, cells, cell_order, snapshot, idx,
                   level_running, new_cell_coordinate>>
    /\ UNCHANGED other_vars

\* MainMenu._start_game after a game of one level has ended: reset(), then
\* run_colonization_phase is entered again on the same ColonizationPhase
\* object and builds the grid and the cell line of the new round
StartGame ==
    /\ pc = "returned"
    /\ \E gs \in SellingGameStates :
        \E low \in SUBSET get_neighbor_coordinates_with_distance(<<0, 0>>, gs.current_level) :
          /\ Cardinality(low) <= MaxLowTiles
          /\ LET grid == create_hexagon_ring(gs.current_level,
                                             gs.hexagon_nutrient_richness, low)
             IN  \E coordinates \in generate_random_positions(DOMAIN grid, gs.number_cells) :
                   \E draws \in [DOMAIN coordinates -> EnergyDraws] :
                     /\ game_state' = gs
                     /\ hexagons' = grid
                     /\ cells' = create_cells(gs, coordinates, draws)
                     /\ cell_order' = coordinates
    /\ snapshot' = <<>>
    /\ idx' = 1
    /\ level_running' = FALSE
    /\ new_cell_coordinate' = None
    /\ selling_size' = 0
    /\ pc' = "while"
    /\ UNCHANGED <<component_vars, phase_vars>>

SellingNext ==
    \/ BeginTick \/ VisitCell \/ UpdateTile \/ EndTick \/ ReportBiomass
    \/ SellingFrame \/ SellingQuit \/ StartGame

\* the selling loop is sequential code: its next frame is always run
SellingSpec == SellingInit /\ [][SellingNext]_vars /\ WF_vars(SellingFrame)

----------------------------------------------------------------------------
(* The utils functions called on their own: the two coordinates are the     *)
(* inputs, each action is one call.                                         *)

MaxCoordinate == 3

Coordinates == ((-MaxCoordinate)..MaxCoordinate) \X ((-MaxCoordinate)..MaxCoordinate)

\* no round is running: the variables of the round hold nothing
RoundIdle ==
    /\ game_state = None
    /\ hexagons = <<>>
    /\ cells = <<>>
    /\ cell_order = <<>>
    /\ snapshot = <<>>
    /\ idx = 1
    /\ level_running = FALSE
    /\ new_cell_coordinate = None
    /\ pc = "idle"

UtilsInit ==
    /\ RoundIdle
    /\ a_axial \in Coordinates
    /\ b_axial \in Coordinates
    /\ utils_return = None
    /\ process_tracker = NewProcessTracker
    /\ highscores = NoHighscores
    /\ new_high_score_index = None
    /\ SimulatorIdle
    /\ SellingIdle

\* calculate_axial_distance(a_axial, b_axial)
CallAxialDistance ==
    /\ utils_return' = [ function |-> "calculate_axial_distance",
                         value |-> calculate_axial_distance(a_axial, b_axial) ]
    /\ UNCHANGED <<a_axial, b_axial, process_tracker, highscore_vars, simulator_vars, selling_vars>>
    /\ UNCHANGED round_vars

\* calculate_hexagon_neighbors(a_axial)
CallHexagonNeighbors ==
    /\ utils_return' = [ function |-> "calculate_hexagon_neighbors",
                         value |-> calculate_hexagon_neighbors(a_axial) ]
    /\ UNCHANGED <<a_axial, b_axial, process_tracker, highscore_vars, simulator_vars, selling_vars>>
    /\ UNCHANGED round_vars

UtilsNext == CallAxialDistance \/ CallHexagonNeighbors

UtilsSpec == UtilsInit /\ [][UtilsNext]_vars

----------------------------------------------------------------------------
(* simulator.update_nutrient_value called on its own: the six arguments are *)
(* the inputs, the action is one call.                                      *)

\* nutrient values on both sides of 0 and of the 0.005 test, energies up to
\* the threshold, both values of the flag
SimulatorArguments ==
    [ nutrient_value : {-One, -Fine, 0, 3 * Fine, One \div 2, One},
      energy_value : {0, One \div 2, One},
      growth : BOOLEAN,
      energy_consumption_rate_maximum :
          {maximum_cell_energy_consumption_rate \div 2, maximum_cell_energy_consumption_rate},
      energy_affinity : {maximum_cell_energy_affinity},
      division_threshold : {default_cell_division_threshold * Fine} ]

SimulatorInit ==
    /\ RoundIdle
    /\ a_axial = <<0, 0>>
    /\ b_axial = <<0, 0>>
    /\ utils_return = None
    /\ process_tracker = NewProcessTracker
    /\ highscores = NoHighscores
    /\ new_high_score_index = None
    /\ simulator_arguments \in SimulatorArguments
    /\ simulator_return = None
    /\ SellingIdle

\* update_nutrient_value(**simulator_arguments)
CallUpdateNutrientValue ==
    /\ simulator_return' =
          update_nutrient_value(simulator_arguments.nutrient_value,
                                simulator_arguments.energy_value,
                                simulator_arguments.growth,
                                simulator_arguments.energy_consumption_rate_maximum,
                                simulator_arguments.energy_affinity,
                                simulator_arguments.division_threshold)
    /\ UNCHANGED <<simulator_arguments, utils_vars, process_tracker, highscore_vars, selling_vars>>
    /\ UNCHANGED round_vars

SimulatorSpec == SimulatorInit /\ [][CallUpdateNutrientValue]_vars

----------------------------------------------------------------------------
(* ProcessTracker.  Times are in tenths of a second, biomass in whole       *)
(* units, growth rates and logarithms in thousandths.  total_substrate and  *)
(* previous_biomass / previous_time are written by update and read by       *)
(* nothing in it; they are left out.                                        *)

MaxSamples == 6

tracker_window == 5
growth_rate_limit == 5000
biomass_ratio_limit == 10

Max(a, b) == IF a >= b THEN a ELSE b

\* the values cell_line.get_biomass() takes in the model
TrackerBiomass == {0, 1, 2, 30}

\* the advances of time.time() between two samples: none, 0.1 s, 1 s
TimeSteps == {0, 1, 10}

\* math.log at the whole numbers the model needs, in thousandths
math_log(x) ==
    CASE x = 1 -> 0
      [] x = 2 -> 693
      [] x = 10 -> 2303
      [] x = 30 -> 3401

\* math.log(biomass_ratio) after biomass_ratio = max(0.1, min(ratio, 10.0));
\* the two max(., 1e-10) before it change no value of at least 1e-10
log_biomass_ratio(start_biomass, end_biomass) ==
    IF end_biomass > biomass_ratio_limit * start_biomass
    THEN math_log(biomass_ratio_limit)
    ELSE IF biomass_ratio_limit * end_biomass < start_biomass
         THEN -math_log(biomass_ratio_limit)
         ELSE math_log(end_biomass) - math_log(start_biomass)

\* variant: the window starts at the first sample
start_idx_first(length) == 1

\* start_idx = max(0, len - window_size), window_size = min(5, len), as a
\* position counted from 1
start_idx(length) == Max(0, length - Min(tracker_window, length)) + 1

\* the value update appends to growth_rate, given the two lists after the
\* current sample has been appended to them
growth_rate_update(timestamps, total_biomass) ==
    LET length == Len(total_biomass)
    IN  IF length >= 2 /\ Min(tracker_window, length) >= 2
        THEN LET start_biomass == total_biomass[start_idx(length)]
                 end_biomass == total_biomass[length]
                 time_diff == timestamps[length] - timestamps[start_idx(length)]
             IN  IF time_diff > 0 /\ start_biomass > 0 /\ end_biomass > 0
                 THEN Max(-growth_rate_limit,
                          Min((log_biomass_ratio(start_biomass, end_biomass) * 10)
                                 \div time_diff,
                              growth_rate_limit))
                 ELSE 0
        ELSE 0

TrackerInit ==
    /\ RoundIdle
    /\ a_axial = <<0, 0>>
    /\ b_axial = <<0, 0>>
    /\ utils_return = None
    /\ process_tracker = NewProcessTracker
    /\ highscores = NoHighscores
    /\ new_high_score_index = None
    /\ SimulatorIdle
    /\ SellingIdle

\* ProcessTracker.initialize_with_initial_state
InitializeWithInitialState ==
    /\ process_tracker.timestamps = <<>>
    /\ \E initial_biomass \in TrackerBiomass :
         process_tracker' = [ timestamps |-> <<0>>,
                              total_biomass |-> <<initial_biomass>>,
                              growth_rate |-> <<0>> ]
    /\ UNCHANGED <<highscore_vars, utils_vars, round_vars, simulator_vars, selling_vars>>

\* ProcessTracker.update
Update ==
    /\ process_tracker.timestamps # <<>>
    /\ Len(process_tracker.timestamps) < MaxSamples
    /\ \E step \in TimeSteps, current_biomass \in TrackerBiomass :
         LET current_time ==
                 process_tracker.timestamps[Len(process_tracker.timestamps)] + step
             timestamps == Append(process_tracker.timestamps, current_time)
             total_biomass == Append(process_tracker.total_biomass, current_biomass)
         IN  process_tracker' =
                 [ timestamps |-> timestamps,
                   total_biomass |-> total_biomass,
                   growth_rate |-> Append(process_tracker.growth_rate,
                                          growth_rate_update(timestamps, total_biomass)) ]
    /\ UNCHANGED <<highscore_vars, utils_vars, round_vars, simulator_vars, selling_vars>>

TrackerNext == InitializeWithInitialState \/ Update

TrackerSpec == TrackerInit /\ [][TrackerNext]_vars

----------------------------------------------------------------------------
(* highscore_manager: the high scores of each level count, kept in          *)
(* highscores.yaml between the calls                                        *)

MaxScore == 6

highscore_count == 10

PlayerNames == {"a", "b"}

\* the values of game_state.run_biomass handed in as score
Scores == 1..MaxScore

\* variant: nothing is removed
remove_duplicates_none(scores) == scores

\* the loop of _remove_duplicates: an entry is appended to unique_scores
\* unless its (name, score) pair has been seen
RECURSIVE unique_scores_loop(_, _)
unique_scores_loop(unique_scores, scores) ==
    IF scores = <<>> THEN unique_scores
    ELSE unique_scores_loop(
             IF \E i \in DOMAIN unique_scores :
                   /\ unique_scores[i].name = Head(scores).name
                   /\ unique_scores[i].score = Head(scores).score
             THEN unique_scores
             ELSE Append(unique_scores, Head(scores)),
             Tail(scores))

\* _remove_duplicates
remove_duplicates(scores) == unique_scores_loop(<<>>, scores)

\* one entry put into a list sorted by descending score, behind the entries
\* of equal score
insert_by_score(sorted_scores, entry) ==
    LET ahead == Cardinality({ i \in DOMAIN sorted_scores :
                                 sorted_scores[i].score >= entry.score })
    IN  SubSeq(sorted_scores, 1, ahead) \o <<entry>>
          \o SubSeq(sorted_scores, ahead + 1, Len(sorted_scores))

\* sorted(scores, key=score, reverse=True): stable, entries of equal score
\* keep their order
RECURSIVE sort_loop(_, _)
sort_loop(sorted_scores, scores) ==
    IF scores = <<>> THEN sorted_scores
    ELSE sort_loop(insert_by_score(sorted_scores, Head(scores)), Tail(scores))

sorted_by_score(scores) == sort_loop(<<>>, scores)

\* highscores[levels][:10]
top_scores(scores) == SubSeq(scores, 1, Min(highscore_count, Len(scores)))

\* new_high_score_index: <<list.index(entry)>> if the entry is in the list,
\* else None
index_of(scores, entry) ==
    IF \E i \in DOMAIN scores : scores[i] = entry
    THEN << (CHOOSE i \in DOMAIN scores :
               /\ scores[i] = entry
               /\ \A j \in 1..(i - 1) : scores[j] # entry) - 1 >>
    ELSE None

HighscoreInit ==
    /\ RoundIdle
    /\ a_axial = <<0, 0>>
    /\ b_axial = <<0, 0>>
    /\ utils_return = None
    /\ process_tracker = NewProcessTracker
    /\ highscores = NoHighscores
    /\ new_high_score_index = None
    /\ SimulatorIdle
    /\ SellingIdle

\* update_highscores(levels, score, player_name): load, append, remove the
\* duplicates, sort, cut, save
UpdateHighscores ==
    /\ \E levels \in LevelCounts, score \in Scores, player_name \in PlayerNames :
         LET new_score_entry == [ name |-> player_name, score |-> score ]
             kept == top_scores(sorted_by_score(remove_duplicates(
                         Append(highscores[levels], new_score_entry))))
         IN  /\ highscores' = [highscores EXCEPT ![levels] = kept]
             /\ new_high_score_index' = index_of(kept, new_score_entry)
    /\ UNCHANGED <<process_tracker, utils_vars, round_vars, simulator_vars, selling_vars>>

HighscoreSpec == HighscoreInit /\ [][UpdateHighscores]_vars

----------------------------------------------------------------------------
(* Properties of the round *)

\* the for loop stands at a cell it has not visited yet
AtCell == pc = "for" /\ idx <= Len(snapshot)

\* the next step calls replicate_cell for the cell at the loop position
ReplicateCalled ==
    /\ AtCell
    /\ cells[snapshot[idx]].growth
    /\ cells[snapshot[idx]].energy_value >= game_state.cell_division_threshold * Fine

\* the next step calls update_nutrient_value with growth = true, nutrient > 0
ExchangeCalled ==
    /\ pc = "update"
    /\ cells[snapshot[idx]].growth
    /\ hexagons[snapshot[idx]].nutrient_value > 0

\* C1: no two cells occupy the same coordinate, the number of cells never
\* exceeds the number of tiles, and replicate_cell never places a daughter
\* on a coordinate that already holds a cell.
OccupancyState ==
    /\ Cardinality(DOMAIN cells) <= Cardinality(DOMAIN hexagons)
    /\ \A c \in DOMAIN cells : cells[c].coordinate_axial = c
    /\ Len(cell_order) = Cardinality(DOMAIN cells)
    /\ { cell_order[i] : i \in DOMAIN cell_order } = DOMAIN cells

DaughterOnFreeSite ==
    (ReplicateCalled /\ new_cell_coordinate' # None) =>
        /\ new_cell_coordinate' \notin DOMAIN cells
        /\ DOMAIN cells' = DOMAIN cells \cup {new_cell_coordinate'}

C1_Occupancy == []OccupancyState /\ [][DaughterOnFreeSite]_vars

\* C1 witness: replication has filled a grid of several tiles completely
C1_Witness ==
    /\ Cardinality(DOMAIN hexagons) > 1
    /\ DOMAIN cells = DOMAIN hexagons
    /\ new_cell_coordinate # None

\* C2: under the fairness of sequential execution the round loop reaches
\* DONE, for every grid, placement and nutrient assignment.
C2_Termination == <>(pc = "done")

\* C3: every update_nutrient_value call with growth = true and nutrient > 0
\* gives the cell exactly the energy the tile loses.
MassConserved ==
    ExchangeCalled =>
        cells'[snapshot[idx]].energy_value - cells[snapshot[idx]].energy_value
          = hexagons[snapshot[idx]].nutrient_value
              - hexagons'[snapshot[idx]].nutrient_value

C3_MassConservation == [][MassConserved]_vars

\* C4: every cell's energy_value is at most its division_threshold, after
\* seeding, after each replication and after each update.
C4_EnergyBelowThreshold ==
    \A c \in DOMAIN cells : cells[c].energy_value <= cells[c].division_threshold

\* C4 witness: an exchange has just brought a growing cell exactly to its
\* threshold (the cell was visited below it, or it would have divided)
C4_Witness ==
    /\ pc = "for"
    /\ idx > 1
    /\ cells[snapshot[idx - 1]].growth
    /\ cells[snapshot[idx - 1]].energy_value = cells[snapshot[idx - 1]].division_threshold
    /\ hexagons[snapshot[idx - 1]].nutrient_value > 0

\* get_biomass after the step minus get_biomass before it, summed cell by
\* cell (a cell born in the step counts with its whole energy)
RECURSIVE sum_energy_change(_)
sum_energy_change(order) ==
    IF order = <<>> THEN 0
    ELSE (cells'[Head(order)].energy_value
            - (IF Head(order) \in DOMAIN cells
               THEN cells[Head(order)].energy_value ELSE 0))
         + sum_energy_change(Tail(order))

BiomassChange == sum_energy_change(cell_order')

\* C5: a successful replicate_cell leaves mother and daughter each with half
\* of the mother's energy before the call; their sum is that energy, and the
\* biomass of the cell line is unchanged.
EnergySplit ==
    (ReplicateCalled /\ new_cell_coordinate' # None) =>
        LET mother == snapshot[idx]
            daughter == new_cell_coordinate'
        IN  /\ 2 * cells'[mother].energy_value = cells[mother].energy_value
            /\ cells'[daughter].energy_value = cells'[mother].energy_value
            /\ cells'[mother].energy_value + cells'[daughter].energy_value
                 = cells[mother].energy_value
            /\ BiomassChange = 0

C5_ReplicationEnergySplit == [][EnergySplit]_vars

\* C5 witness: a cell that is itself a daughter (energy below the seeds')
\* has divided again
C5_Witness ==
    /\ pc = "update"
    /\ new_cell_coordinate # None
    /\ new_cell_coordinate # snapshot[idx]
    /\ Len(cell_order) >= 3
    /\ cell_order[1] # snapshot[idx]
    /\ cells[new_cell_coordinate].energy_value = cells[snapshot[idx]].energy_value
    /\ 2 * cells[snapshot[idx]].energy_value = cells[snapshot[idx]].division_threshold

\* C6: every coordinate that keys a cell is the coordinate of a tile of the
\* grid, for seeded cells and for every daughter.
C6_CellsOnTiles ==
    /\ DOMAIN cells \subseteq DOMAIN hexagons
    /\ \A c \in DOMAIN cells : cells[c].coordinate_axial \in DOMAIN hexagons
    /\ \A i \in DOMAIN cell_order : cell_order[i] \in DOMAIN hexagons

\* C6 witness: a mother on the rim of the grid, some of whose neighbours are
\* no tiles, has placed a daughter
C6_Witness ==
    /\ pc = "update"
    /\ game_state.current_level >= 1
    /\ calculate_axial_distance(<<0, 0>>, snapshot[idx]) = game_state.current_level
    /\ new_cell_coordinate \in calculate_hexagon_neighbors(snapshot[idx])
    /\ cells[new_cell_coordinate].energy_value = cells[snapshot[idx]].energy_value

\* C7: a cell's growth flag never changes from false back to true.
GrowthStaysFalse ==
    \A c \in DOMAIN cells :
        ~cells[c].growth => (c \in DOMAIN cells' /\ ~cells'[c].growth)

C7_GrowthIrreversible == [][GrowthStaysFalse]_vars

\* C7 witness: one cell arrested for lack of a free neighbour, one arrested
\* by exhaustion of its tile, while a third cell still grows
C7_Witness ==
    /\ \E c \in DOMAIN cells : ~cells[c].growth /\ hexagons[c].nutrient_value > 0
    /\ \E c \in DOMAIN cells : ~cells[c].growth /\ hexagons[c].nutrient_value = 0
    /\ \E c \in DOMAIN cells : cells[c].growth

\* C8: the loop exits at the end of the first tick in which no cell of the
\* snapshot had growth = true when visited, never earlier, and at the exit
\* every cell has growth = false.
ExitState ==
    pc = "done" => /\ ~level_running
                   /\ \A c \in DOMAIN cells : ~cells[c].growth

ExitRule ==
    \* a cell found growing marks the tick as running
    /\ (AtCell /\ cells[snapshot[idx]].growth) => level_running'
    \* the mark is set by nothing else and cleared only at the top of a tick
    /\ (~level_running /\ level_running') => (AtCell /\ cells[snapshot[idx]].growth)
    /\ (level_running /\ ~level_running') => pc = "while"
    /\ pc = "while" => ~level_running'
    \* the loop exits at the end of a tick without a mark, and only there
    /\ pc' = "done" => (pc = "for" /\ idx > Len(snapshot) /\ ~level_running)
    /\ (pc = "for" /\ idx > Len(snapshot) /\ ~level_running) => pc' = "done"
    /\ (pc = "for" /\ idx > Len(snapshot) /\ level_running) => pc' = "while"

C8_RoundExit == []ExitState /\ [][ExitRule]_vars

\* C8 witness: a round that colonized several tiles has ended
C8_Witness == pc = "done" /\ Cardinality(DOMAIN cells) >= 3

\* C9: a tile's nutrient_value never increases.
NutrientNotIncreased ==
    \A t \in DOMAIN hexagons :
        /\ t \in DOMAIN hexagons'
        /\ hexagons'[t].nutrient_value <= hexagons[t].nutrient_value

C9_NutrientNonIncreasing == [][NutrientNotIncreased]_vars

\* C9 witness: the centre tile, built with at least 0.9 or with 0, has been
\* eaten down to a positive value below half
C9_Witness ==
    /\ hexagons[<<0, 0>>].nutrient_value > 0
    /\ 2 * hexagons[<<0, 0>>].nutrient_value < One

\* C10: every tile's nutrient_value lies in [0, 1], at grid construction
\* and after any number of updates.
C10_NutrientInUnitInterval ==
    \A t \in DOMAIN hexagons :
        0 <= hexagons[t].nutrient_value /\ hexagons[t].nutrient_value <= One

\* C10 witness: a round has ended with one tile still at the clamp value 1
\* and another eaten down to 0 by its cell
C10_Witness ==
    /\ pc = "done"
    /\ \E t \in DOMAIN hexagons : hexagons[t].nutrient_value = One
    /\ \E t \in DOMAIN cells :
         /\ hexagons[t].nutrient_value = 0
         /\ 2 * cells[t].energy_value >= cells[t].division_threshold

\* the sum of energy_value over a set of cells of the cell line
RECURSIVE energy_total(_)
energy_total(S) ==
    IF S = {} THEN 0
    ELSE LET c == CHOOSE x \in S : TRUE
         IN  cells[c].energy_value + energy_total(S \ {c})

\* C15: the biomass reported at round end is the sum of energy_value over
\* all cells of the cell line at DONE: current_biomass is set to that sum,
\* run_biomass grows by exactly that sum, and run_biomass changes in no
\* other step of the round, so once per completed round.
BiomassReported ==
    /\ (pc = "done" /\ pc' # "done") =>
          /\ game_state'.current_biomass = energy_total(DOMAIN cells)
          /\ game_state'.run_biomass
                = game_state.run_biomass + energy_total(DOMAIN cells)
          /\ cells' = cells
    /\ (game_state'.run_biomass # game_state.run_biomass
          \/ game_state'.current_biomass # game_state.current_biomass) =>
          (pc = "done" /\ pc' = "selling")
    /\ pc = "selling" => pc' = "selling"

C15_BiomassReported == [][BiomassReported]_vars

\* C15 witness: a round of a later level has reported the biomass of
\* several cells, on top of the harvest of the earlier rounds
C15_Witness ==
    /\ pc = "selling"
    /\ Cardinality(DOMAIN cells) >= 3
    /\ game_state.current_biomass > One
    /\ game_state.run_biomass = One + game_state.current_biomass

\* C18: once the nutrient exchange of a tick has run for a tile whose
\* nutrient_value is 0, the cell on it has growth = false: of the cells the
\* for loop has passed in the running tick, none is growing on a depleted
\* tile, so none stays so from one tick to the next.
C18_DepletedTileArrests ==
    (pc \in {"for", "update"}) =>
        \A i \in 1..(idx - 1) :
            hexagons[snapshot[i]].nutrient_value = 0 => ~cells[snapshot[i]].growth

\* C19: when replicate_cell succeeds, the daughter's coordinate is one of
\* the 6 neighbour coordinates of the mother, is a tile of the grid and held
\* no cell before the call; exactly one cell is added, and no cell entry
\* that existed is replaced or removed.
ReplicationAddsOneCell ==
    (ReplicateCalled /\ new_cell_coordinate' # None) =>
        LET mother == snapshot[idx]
            daughter == new_cell_coordinate'
        IN  /\ daughter \in calculate_hexagon_neighbors(mother)
            /\ calculate_axial_distance(mother, daughter) = 1
            /\ daughter \in DOMAIN hexagons
            /\ daughter \notin DOMAIN cells
            /\ DOMAIN cells' = DOMAIN cells \cup {daughter}
            /\ Cardinality(DOMAIN cells') = Cardinality(DOMAIN cells) + 1
            /\ cell_order' = Append(cell_order, daughter)
            /\ cells'[daughter].coordinate_axial = daughter
            /\ \A c \in DOMAIN cells :
                  /\ cells'[c].coordinate_axial = cells[c].coordinate_axial
                  /\ c # mother => cells'[c] = cells[c]

C19_ReplicationAddsOneCell == [][ReplicationAddsOneCell]_vars

\* C19 witness: a mother on the rim of the grid, with a neighbour coordinate
\* off the grid and a neighbour tile already occupied, has just placed a
\* daughter: the daughter is the newest cell and its tile is highlighted
C19_Witness ==
    /\ pc = "update"
    /\ new_cell_coordinate # None
    /\ new_cell_coordinate \in calculate_hexagon_neighbors(snapshot[idx])
    /\ cell_order[Len(cell_order)] = new_cell_coordinate
    /\ hexagons[new_cell_coordinate].highlight_ticks = 50
    /\ \E n \in calculate_hexagon_neighbors(snapshot[idx]) : n \notin DOMAIN hexagons
    /\ \E n \in calculate_hexagon_neighbors(snapshot[idx]) \ {new_cell_coordinate} :
         n \in DOMAIN cells
    /\ 2 * cells[snapshot[idx]].energy_value = cells[snapshot[idx]].division_threshold

\* C20: when replicate_cell is called for a cell none of whose 6 neighbour
\* coordinates is both a grid tile and unoccupied, it returns None, sets
\* only that cell's growth to false and leaves the set of cells, every
\* cell's energy_value and every tile's nutrient_value and highlight_ticks
\* unchanged.
ReplicationWithoutSite ==
    (/\ ReplicateCalled
     /\ \A n \in calculate_hexagon_neighbors(snapshot[idx]) :
           n \notin DOMAIN hexagons \/ n \in DOMAIN cells) =>
        /\ new_cell_coordinate' = None
        /\ DOMAIN cells' = DOMAIN cells
        /\ cell_order' = cell_order
        /\ ~cells'[snapshot[idx]].growth
        /\ \A c \in DOMAIN cells :
              /\ cells'[c].energy_value = cells[c].energy_value
              /\ c # snapshot[idx] => cells'[c] = cells[c]
        /\ cells'[snapshot[idx]] = [cells[snapshot[idx]] EXCEPT !.growth = FALSE]
        /\ \A t \in DOMAIN hexagons :
              /\ hexagons'[t].nutrient_value = hexagons[t].nutrient_value
              /\ hexagons'[t].highlight_ticks = hexagons[t].highlight_ticks
        /\ DOMAIN hexagons' = DOMAIN hexagons

C20_ReplicationWithoutSite == [][ReplicationWithoutSite]_vars

\* C20 witness: on a grid of several tiles a cell at its threshold found no
\* free neighbour tile and was stopped, while another cell still grows and
\* a tile still shows a highlight
C20_Witness ==
    /\ pc = "update"
    /\ new_cell_coordinate = None
    /\ ~cells[snapshot[idx]].growth
    /\ cells[snapshot[idx]].energy_value = cells[snapshot[idx]].division_threshold
    /\ Cardinality(DOMAIN hexagons) > 1
    /\ \E c \in DOMAIN cells : cells[c].growth
    /\ \E t \in DOMAIN hexagons : hexagons[t].highlight_ticks > 0

\* the cells of the running tick's snapshot
SnapshotCells == { snapshot[i] : i \in DOMAIN snapshot }

\* C22: each tick iterates over a snapshot of the cell line taken at tick
\* start: the snapshot lists every cell present at tick start once and does
\* not change during the tick, the loop visits its positions one by one and
\* ends only behind the last, and a cell that is not in the snapshot (a
\* daughter born in this tick) is neither divided, stopped nor fed, nor is
\* its tile's nutrient touched, until the next tick.
SnapshotTaken ==
    pc \in {"for", "update"} =>
        /\ \A i, j \in DOMAIN snapshot : i # j => snapshot[i] # snapshot[j]
        /\ SnapshotCells \subseteq DOMAIN cells
        /\ idx \in 1..(Len(snapshot) + 1)
        /\ pc = "update" => idx <= Len(snapshot)

SnapshotIteration ==
    /\ pc = "while" => (pc' = "for" /\ snapshot' = cell_order /\ idx' = 1)
    /\ pc \in {"for", "update"} => snapshot' = snapshot
    /\ AtCell => \/ (pc' = "update" /\ idx' = idx /\ cells[snapshot[idx]].growth)
                 \/ (pc' = "for" /\ idx' = idx + 1 /\ ~cells[snapshot[idx]].growth)
    /\ pc = "update" => (pc' = "for" /\ idx' = idx + 1)
    /\ (pc = "for" /\ pc' \in {"while", "done"}) => idx > Len(snapshot)
    /\ pc \in {"for", "update"} =>
          \A c \in DOMAIN cells \ SnapshotCells :
              /\ cells'[c] = cells[c]
              /\ hexagons'[c].nutrient_value = hexagons[c].nutrient_value
    /\ (pc \in {"for", "update"} /\ idx <= Len(snapshot)) =>
          \A c \in DOMAIN cells \ {snapshot[idx]} :
              /\ cells'[c] = cells[c]
              /\ hexagons'[c].nutrient_value = hexagons[c].nutrient_value
    /\ new_cell_coordinate' # new_cell_coordinate =>
          (AtCell /\ (new_cell_coordinate' = None
                        \/ new_cell_coordinate' \in calculate_hexagon_neighbors(snapshot[idx])))

C22_SnapshotIteration == []SnapshotTaken /\ [][SnapshotIteration]_vars

\* C22 witness: a tick that started with several cells has visited them all
\* and a daughter born in it, at its threshold like its mother was, still
\* has the half it was born with and a tile no cell has fed on
C22_Witness ==
    /\ pc = "for"
    /\ idx > Len(snapshot)
    /\ Len(snapshot) >= 2
    /\ Len(cell_order) > Len(snapshot)
    /\ LET daughter == cell_order[Len(cell_order)]
       IN  /\ daughter = new_cell_coordinate
           /\ cells[daughter].growth
           /\ 2 * cells[daughter].energy_value = cells[daughter].division_threshold
           /\ hexagons[daughter].nutrient_value >= One \div 2

\* C23: within a cell's visit replication comes before the nutrient
\* exchange and is attempted only at energy_value >= division_threshold: a
\* growing cell below the threshold goes to the exchange untouched; a cell
\* at the threshold is divided or stopped while its tile's nutrient is as it
\* was, and the exchange for the same cell follows; a mother that divided
\* still has growth = true, and the exchange feeds every growing cell below
\* its threshold on a tile with nutrient, the mother included.
ReplicationBeforeExchange ==
    /\ (AtCell /\ cells[snapshot[idx]].growth /\ ~ReplicateCalled) =>
          /\ cells' = cells
          /\ hexagons' = hexagons
          /\ new_cell_coordinate' = new_cell_coordinate
          /\ pc' = "update"
    /\ ReplicateCalled =>
          /\ pc' = "update"
          /\ idx' = idx
          /\ cells' # cells
          /\ hexagons'[snapshot[idx]] = hexagons[snapshot[idx]]
          /\ new_cell_coordinate' # None =>
                /\ cells'[snapshot[idx]].growth
                /\ cells'[snapshot[idx]].energy_value < cells'[snapshot[idx]].division_threshold
          /\ new_cell_coordinate' = None => ~cells'[snapshot[idx]].growth
    /\ (ExchangeCalled
          /\ cells[snapshot[idx]].energy_value < cells[snapshot[idx]].division_threshold) =>
          /\ cells'[snapshot[idx]].energy_value > cells[snapshot[idx]].energy_value
          /\ hexagons'[snapshot[idx]].nutrient_value < hexagons[snapshot[idx]].nutrient_value

C23_ReplicationBeforeExchange == [][ReplicationBeforeExchange]_vars

\* C23 witness: the seeded cell has just divided for the second time, in a
\* later tick than the first: both daughters are hers, she holds half her
\* threshold, still grows and stands before the exchange of this tick
C23_Witness ==
    /\ pc = "update"
    /\ Len(cell_order) = 3
    /\ snapshot[idx] = cell_order[1]
    /\ new_cell_coordinate = cell_order[3]
    /\ cell_order[2] \in calculate_hexagon_neighbors(cell_order[1])
    /\ cell_order[3] \in calculate_hexagon_neighbors(cell_order[1])
    /\ cells[cell_order[1]].growth
    /\ 2 * cells[cell_order[1]].energy_value = cells[cell_order[1]].division_threshold
    /\ cells[cell_order[3]].energy_value = cells[cell_order[1]].energy_value
    /\ hexagons[cell_order[1]].nutrient_value > 0

\* C24: once a cell's growth is false, its energy_value and the
\* nutrient_value of the tile it occupies never change again in the round:
\* no step changes either of them for a cell that is not growing.
ArrestedCellFrozen ==
    \A c \in DOMAIN cells :
        ~cells[c].growth =>
            /\ c \in DOMAIN cells'
            /\ cells'[c].energy_value = cells[c].energy_value
            /\ hexagons'[c].nutrient_value = hexagons[c].nutrient_value

C24_ArrestedCellFrozen == [][ArrestedCellFrozen]_vars

\* C24 witness: a cell stopped at its threshold for lack of a free
\* neighbour has gone through the exchange of the same visit; its tile
\* keeps the nutrient left on it while a neighbour still grows
C24_Witness ==
    /\ pc = "for"
    /\ idx > 1
    /\ new_cell_coordinate = None
    /\ ~cells[snapshot[idx - 1]].growth
    /\ cells[snapshot[idx - 1]].energy_value = cells[snapshot[idx - 1]].division_threshold
    /\ hexagons[snapshot[idx - 1]].nutrient_value >= One \div 2
    /\ \E c \in calculate_hexagon_neighbors(snapshot[idx - 1]) \cap DOMAIN cells :
          cells[c].growth

\* C25: the set of tile coordinates of the round's grid is fixed at
\* construction: it is the hexagonal ring set of the round's level, every
\* tile is keyed by its own coordinate, and no tick, replication or
\* nutrient update adds a tile, removes a tile or changes a tile's
\* coordinate.
GridAsConstructed ==
    /\ DOMAIN hexagons = get_neighbor_coordinates_with_distance(<<0, 0>>, game_state.current_level)
    /\ \A t \in DOMAIN hexagons : hexagons[t].coordinate_axial = t

GridFixed ==
    /\ DOMAIN hexagons' = DOMAIN hexagons
    /\ \A t \in DOMAIN hexagons :
          hexagons'[t].coordinate_axial = hexagons[t].coordinate_axial

C25_GridFixed == []GridAsConstructed /\ [][GridFixed]_vars

\* C25 witness: a round on the 7-tile grid has ended after replications
\* and after a tile was eaten down to 0, with a highlight still counting
C25_Witness ==
    /\ pc = "done"
    /\ Cardinality(DOMAIN hexagons) = 7
    /\ Cardinality(DOMAIN cells) >= 4
    /\ \E t \in DOMAIN cells : hexagons[t].nutrient_value = 0
    /\ \E t \in DOMAIN hexagons : hexagons[t].highlight_ticks > 0

\* the step that ends a frame of the round loop: the frame is drawn
FrameEnds == pc = "for" /\ idx > Len(snapshot)

\* C26: highlight_ticks is a non-negative countdown: it rises only on the
\* tile a cell is born on in that step, and every tile whose count is
\* positive loses exactly one per tick (frame) of the round loop, never going
\* below 0.  Every frame ends with a step that takes one from every positive
\* count, so a tick takes exactly one if and only if no other step of the
\* tick lowers a count that the end of the frame lowers again, that is, no
\* other step lowers a count to anything but 0.
HighlightNonNegative ==
    \A t \in DOMAIN hexagons : hexagons[t].highlight_ticks >= 0

HighlightCountdown ==
    \A t \in DOMAIN hexagons :
        /\ hexagons'[t].highlight_ticks > hexagons[t].highlight_ticks =>
              (t = new_cell_coordinate' /\ t \notin DOMAIN cells /\ t \in DOMAIN cells')
        /\ FrameEnds =>
              hexagons'[t].highlight_ticks =
                  IF hexagons[t].highlight_ticks > 0
                  THEN hexagons[t].highlight_ticks - 1 ELSE 0
        /\ (~FrameEnds /\ hexagons'[t].highlight_ticks < hexagons[t].highlight_ticks) =>
              hexagons'[t].highlight_ticks = 0

C26_HighlightCountdown == []HighlightNonNegative /\ [][HighlightCountdown]_vars

\* C28: every cell alive in a round, seeded at round start or created by
\* replication, has the same energy_consumption_rate_maximum: the
\* configured rate multiplied by the level factor 0.5 + 0.5*(level/(1+level)).
C28_UniformConsumptionRate ==
    \A c \in DOMAIN cells :
        cells[c].energy_consumption_rate_maximum =
            scale_energy_consumption_rate(
                game_state.cell_energy_consumption_rate_maximum, game_state.current_level)

\* the nutrient of a set of tiles after the step minus their nutrient
\* before it, summed tile by tile
RECURSIVE sum_nutrient_change(_)
sum_nutrient_change(S) ==
    IF S = {} THEN 0
    ELSE LET t == CHOOSE x \in S : TRUE
         IN  (hexagons'[t].nutrient_value - hexagons[t].nutrient_value)
               + sum_nutrient_change(S \ {t})

\* C29: the sum of all cells' energy_value plus all tiles' nutrient_value
\* never increases: no step of a tick increases it, so it does not increase
\* from one tick to the next; a replication leaves it as it is.
MassNotCreated ==
    /\ BiomassChange + sum_nutrient_change(DOMAIN hexagons) <= 0
    /\ ReplicateCalled =>
          (BiomassChange = 0 /\ sum_nutrient_change(DOMAIN hexagons) = 0)

C29_MassNotCreated == [][MassNotCreated]_vars

\* C29 witness: at a tick boundary of a round on the 7-tile grid, after
\* replications, one cell has eaten its tile down to the snap to 0 and
\* another still grows
C29_Witness ==
    /\ pc = "while"
    /\ Cardinality(DOMAIN hexagons) = 7
    /\ Len(cell_order) >= 3
    /\ \E c \in DOMAIN cells :
          /\ ~cells[c].growth
          /\ hexagons[c].nutrient_value = 0
          /\ cells[c].energy_value < cells[c].division_threshold
    /\ \E c \in DOMAIN cells : cells[c].growth /\ hexagons[c].nutrient_value > 0

\* the two values create_hexagon can give the tile at coordinate t
ConstructionNutrient(t) ==
    { create_hexagon(t, -game_state.hexagon_nutrient_richness).nutrient_value,
      create_hexagon(t, game_state.hexagon_nutrient_richness).nutrient_value }

\* C30: the nutrient_value of a tile changes only in the exchange for a
\* cell with growth = true that occupies that tile; a tile that holds no
\* cell has its construction-time nutrient_value; and the exchange for one
\* (tile, cell) pair changes no other tile and no other cell.
TileWithoutCellAsBuilt ==
    \A t \in DOMAIN hexagons \ DOMAIN cells :
        hexagons[t].nutrient_value \in ConstructionNutrient(t)

NutrientChangesAtOwnCell ==
    /\ \A t \in DOMAIN hexagons :
          hexagons'[t].nutrient_value # hexagons[t].nutrient_value =>
              /\ pc = "update"
              /\ t = snapshot[idx]
              /\ t \in DOMAIN cells
              /\ cells[t].growth
    /\ pc = "update" =>
          /\ DOMAIN cells' = DOMAIN cells
          /\ \A c \in DOMAIN cells \ {snapshot[idx]} : cells'[c] = cells[c]
          /\ \A t \in DOMAIN hexagons \ {snapshot[idx]} : hexagons'[t] = hexagons[t]
          /\ cells'[snapshot[idx]].coordinate_axial = snapshot[idx]

C30_NutrientChangesAtOwnCell == []TileWithoutCellAsBuilt /\ [][NutrientChangesAtOwnCell]_vars

\* C30 witness: at a tick boundary, with several cells on the grid and one
\* of them arrested, a tile that never held a cell lies next to a cell
\* whose tile was eaten down below every construction value
C30_Witness ==
    /\ pc = "while"
    /\ Len(cell_order) >= 3
    /\ \E c \in DOMAIN cells : ~cells[c].growth
    /\ \E t \in DOMAIN hexagons \ DOMAIN cells :
          /\ hexagons[t].nutrient_value > 0
          /\ \E c \in calculate_hexagon_neighbors(t) \cap DOMAIN cells :
                /\ hexagons[c].nutrient_value > 0
                /\ \A v \in ConstructionNutrient(c) : hexagons[c].nutrient_value < v

----------------------------------------------------------------------------
(* Properties of the round setup *)

C12_RingCardinality ==
    pc = "grid" =>
        /\ Cardinality(cube_coordinates_with_distance(game_state.current_level))
              = TileCount(game_state.current_level)
        /\ Cardinality(DOMAIN hexagons) = TileCount(game_state.current_level)
        /\ \A c \in DOMAIN hexagons : hexagons[c].coordinate_axial = c

\* C12 witness: the grid of the largest radius, 331 tiles for radius 10
C12_Witness ==
    /\ pc = "grid"
    /\ game_state.current_level = MaxRing
    /\ Cardinality(DOMAIN hexagons) = 3 * MaxRing * MaxRing + 3 * MaxRing + 1
    /\ \E c \in DOMAIN hexagons : calculate_axial_distance(<<0, 0>>, c) = MaxRing

\* the configurations the claim calls invalid
InvalidConfiguration ==
    \/ game_state.cell_energy_affinity <= 0
    \/ game_state.cell_division_threshold <= 0

\* C14: a round started with an invalid configuration (cell_energy_affinity
\* <= 0 or cell_division_threshold <= 0) is rejected at round setup: no tile
\* and no cell is ever created and the round loop is never entered.
C14_InvalidConfigurationRejected ==
    InvalidConfiguration =>
        /\ pc = "setup"
        /\ DOMAIN hexagons = {}
        /\ DOMAIN cells = {}

----------------------------------------------------------------------------
(* Properties of the selling screen *)

\* C27: for every round whose harvest is sold to completion, once selling
\* is initiated current_biomass reaches exactly 0 after finitely many frames
\* (every frame of an initiated sale lowers it until it is 0), and the
\* credits added to current_credits when the screen is left are
\* biomass_price times the biomass the round produced, to the nearest
\* hundredth; nothing is carried over: while the program runs outside the
\* selling screen the fields of the phase are as constructed, and the
\* credits gained so far are the price of what this round has sold so far.
SellingScreen ==
    /\ game_state.current_biomass >= 0
    /\ selling_completed => (selling_initiated /\ game_state.current_biomass = 0)
    /\ pc \notin {"selling", "exit"} => NewColonizationPhase
    /\ pc = "selling" =>
          credits_gained = game_state.biomass_price * (get_biomass - game_state.current_biomass)

SellingRule ==
    /\ (pc = "selling" /\ pc' = "returned") =>
          /\ selling_completed
          /\ game_state.current_biomass = 0
          /\ LET added == game_state'.current_credits - game_state.current_credits
                 exact == game_state.biomass_price * get_biomass
             IN  2 * Abs(added * (One \div 100) - exact) <= One \div 100
    /\ game_state'.current_credits # game_state.current_credits =>
          \/ (pc = "selling" /\ pc' = "returned")
          \/ pc = "returned"
    /\ (pc = "selling" /\ pc' = "selling"
          /\ game_state'.current_biomass # game_state.current_biomass) =>
          /\ selling_initiated'
          /\ game_state'.current_biomass < game_state.current_biomass
    /\ (pc = "selling" /\ pc' = "selling" /\ selling_initiated
          /\ game_state.current_biomass > 0) =>
          game_state'.current_biomass < game_state.current_biomass

C27_HarvestSold ==
    /\ []SellingScreen
    /\ [][SellingRule]_vars
    /\ (pc = "selling" /\ selling_initiated)
          ~> (game_state.current_biomass = 0 \/ pc = "exit")

\* C27 witness: a harvest of half a unit, sold at the price 3, has been
\* sold to completion and the screen left: 1.5 credits were added and the
\* fields of the phase are as constructed
C27_Witness ==
    /\ pc = "returned"
    /\ game_state.biomass_price = maximum_biomass_price
    /\ 2 * get_biomass = One
    /\ game_state.current_credits = 150
    /\ game_state.current_biomass = 0
    /\ NewColonizationPhase

----------------------------------------------------------------------------
(* Properties of the hex coordinate functions *)

\* C13: calculate_axial_distance(a, b) = calculate_axial_distance(b, a),
\* calculate_axial_distance(a, a) = 0, and each of the 6 coordinates that
\* calculate_hexagon_neighbors(a) returns is at distance exactly 1 from a.
C13_DistanceSymmetryIdentity ==
    /\ (utils_return # None /\ utils_return.function = "calculate_axial_distance") =>
          /\ utils_return.value = calculate_axial_distance(b_axial, a_axial)
          /\ (a_axial = b_axial => utils_return.value = 0)
          /\ utils_return.value >= 0
    /\ (utils_return # None /\ utils_return.function = "calculate_hexagon_neighbors") =>
          /\ Cardinality(utils_return.value) = 6
          /\ \A n \in utils_return.value : calculate_axial_distance(a_axial, n) = 1

\* C13 witness: a distance of 3 between tiles that differ in both components
\* with opposite signs, the case where the third cube component is 0
C13_Witness ==
    /\ utils_return # None
    /\ utils_return.function = "calculate_axial_distance"
    /\ a_axial[1] - b_axial[1] = 3
    /\ a_axial[2] - b_axial[2] = -3
    /\ utils_return.value = 3

----------------------------------------------------------------------------
(* Properties of update_nutrient_value *)

\* C21: update_nutrient_value called with growth = false or
\* nutrient_value <= 0 returns nutrient_value, energy_value and growth
\* exactly as passed in: no transfer, no snap to 0, no change of the flag.
C21_NoOpReturnsInputs ==
    (/\ simulator_return # None
     /\ ~simulator_arguments.growth \/ simulator_arguments.nutrient_value <= 0) =>
        /\ simulator_return.nutrient_value = simulator_arguments.nutrient_value
        /\ simulator_return.energy_value = simulator_arguments.energy_value
        /\ simulator_return.growth = simulator_arguments.growth

\* C21 witness: a growing cell below its threshold on a tile whose nutrient
\* is negative and inside the 0.005 band: the call left all three as they were
C21_Witness ==
    /\ simulator_return # None
    /\ simulator_arguments.growth
    /\ simulator_arguments.nutrient_value = -Fine
    /\ simulator_arguments.energy_value < simulator_arguments.division_threshold
    /\ simulator_return.nutrient_value = -Fine
    /\ simulator_return.growth

----------------------------------------------------------------------------
(* Properties of ProcessTracker *)

\* the start of the trailing window of sample n: at most 5 samples, n included
WindowStart(n) == IF n > 5 THEN n - 4 ELSE 1

\* ln(biomass[n] / biomass[ws]) / (t[n] - t[ws]) clamped to [-5, 5], and 0
\* when the time delta or a biomass endpoint is not positive; the ratio is
\* limited to [1/limit, limit] first when limit is not 0
GrowthRateFormula(n, limit) ==
    LET ws == WindowStart(n)
        b_n == process_tracker.total_biomass[n]
        b_ws == process_tracker.total_biomass[ws]
        dt == process_tracker.timestamps[n] - process_tracker.timestamps[ws]
        ln == IF limit # 0 /\ b_n > limit * b_ws THEN math_log(limit)
              ELSE IF limit # 0 /\ limit * b_n < b_ws THEN -math_log(limit)
              ELSE math_log(b_n) - math_log(b_ws)
    IN  IF dt <= 0 \/ b_n <= 0 \/ b_ws <= 0 THEN 0
        ELSE IF (ln * 10) \div dt > 5000 THEN 5000
        ELSE IF (ln * 10) \div dt < -5000 THEN -5000
        ELSE (ln * 10) \div dt

----------------------------------------------------------------------------
(* Properties of the high scores *)

\* C17: after any sequence of update_highscores calls the stored list of
\* each level count is sorted by score in descending order, holds at most
\* 10 entries and has no two entries with the same (name, score) pair.
C17_HighscoreLists ==
    \A levels \in DOMAIN highscores :
        LET scores == highscores[levels]
        IN  /\ \A i, j \in DOMAIN scores : i < j => scores[i].score >= scores[j].score
            /\ Len(scores) <= 10
            /\ \A i, j \in DOMAIN scores :
                  (scores[i].name = scores[j].name /\ scores[i].score = scores[j].score)
                      => i = j

\* C17 witness: a full list, two players tied on one score, and the entry
\* just handed in fell off the end of the list
C17_Witness ==
    \E levels \in DOMAIN highscores :
        /\ Len(highscores[levels]) = 10
        /\ highscores[levels][1].score = highscores[levels][2].score
        /\ new_high_score_index = None

====
